---- MODULE Spec2Model ----
(***************************************************************************)
(* Model of three pieces of the dyrectorio web application:                *)
(*   - the enumeration mappers of crux-ui (node-mappers.ts),               *)
(*   - the DyoCheckbox element of crux-ui (dyo-checkbox.tsx),              *)
(*   - the deployment HTTP controller of crux (deploy.http.controller.ts). *)
(* Each piece has its own specification (SpecMapper, SpecCheckbox,         *)
(* SpecController) over the common set of variables.                       *)
(***************************************************************************)
EXTENDS Integers, Sequences, FiniteSets, TLC

VARIABLES
    stateCall,      \* last call of containerStateToDto:        [called, arg, ret]
    uiToGrpcCall,   \* last call of nodeTypeUiToGrpc:           [called, arg, ret]
    grpcToUiCall,   \* last call of nodeTypeGrpcToUi:           [called, arg, ret]
    statusCall,     \* last call of nodeStatusToDto:            [called, arg, ret]
    operationCall,  \* last call of containerOperationToProto:  [called, arg, ret]
    props,          \* the props of DyoCheckbox given by its parent
    callLog,        \* per handled event since the last render, the callbacks called
    deployments,    \* DeployService: the ids of the deployments that exist
    instances,      \* DeployService: instance id -> id of its deployment, "" if none
    req,            \* the request the controller handled last
    svcCalls,       \* the service calls made for it, with their results
    res,            \* what the handler returned for it
    prevReq,        \* the request before it,
    prevCalls,      \*   its service calls
    prevRes         \*   and what the handler returned

mapperVars == <<stateCall, uiToGrpcCall, grpcToUiCall, statusCall, operationCall>>

checkboxVars == <<props, callLog>>

controllerVars == <<deployments, instances, req, svcCalls, res, prevReq, prevCalls, prevRes>>

vars == <<mapperVars, checkboxVars, controllerVars>>

(***************************************************************************)
(* Bounds                                                                  *)
(***************************************************************************)
\* wire values of the protocol enumerations are drawn from -1..MaxWireValue,
\* which reaches beyond every known member of every enumeration
MaxWireValue == 8

\* events DyoCheckbox handles between two renders
MaxEvents == 2

\* deployment ids the service can hand out
MaxDeployments == 3

WireValues == (-1)..MaxWireValue

(***************************************************************************)
(* Generated protocol enumerations (ts-proto output, imported by the       *)
(* mappers)                                                                *)
(***************************************************************************)
UNRECOGNIZED == -1

\* crux.NodeType
NODE_TYPE_UNSPECIFIED == 0
DOCKER == 1
K8S == 2

\* crux.NodeConnectionStatus
CONNECTION_STATUS_UNSPECIFIED == 0
UNREACHABLE == 1
CONNECTED == 2

\* common.ContainerOperation
CONTAINER_OPERATION_UNSPECIFIED == 0
START_CONTAINER == 1
STOP_CONTAINER == 2
RESTART_CONTAINER == 3

ProtoContainerOperationValues ==
    {UNRECOGNIZED, CONTAINER_OPERATION_UNSPECIFIED, START_CONTAINER, STOP_CONTAINER, RESTART_CONTAINER}

GrpcNodeTypeValues == {UNRECOGNIZED, NODE_TYPE_UNSPECIFIED, DOCKER, K8S}

\* the ordered list of the node types of the UI
NODE_TYPE_VALUES == <<"docker", "k8s">>

\* strings are sequences of characters, so that case conversion is computed
UpperLetters == <<"A","B","C","D","E","F","G","H","I","J","K","L","M",
                  "N","O","P","Q","R","S","T","U","V","W","X","Y","Z">>
LowerLetters == <<"a","b","c","d","e","f","g","h","i","j","k","l","m",
                  "n","o","p","q","r","s","t","u","v","w","x","y","z">>

IsUpper(c) == \E i \in 1..Len(UpperLetters) : UpperLetters[i] = c

\* String.prototype.toLowerCase on the ASCII names of the enumeration
toLowerCase(s) ==
    [i \in 1..Len(s) |->
        IF IsUpper(s[i])
        THEN LowerLetters[CHOOSE k \in 1..Len(UpperLetters) : UpperLetters[k] = s[i]]
        ELSE s[i]]

\* common.containerStateToJSON: the canonical name of a container state,
\* "UNRECOGNIZED" for ContainerState.UNRECOGNIZED and for any unknown value
containerStateToJSON(object) ==
    CASE object = 0 -> <<"C","O","N","T","A","I","N","E","R","_","S","T","A","T","E","_",
                         "U","N","S","P","E","C","I","F","I","E","D">>
      [] object = 1 -> <<"C","R","E","A","T","E","D">>
      [] object = 2 -> <<"R","E","S","T","A","R","T","I","N","G">>
      [] object = 3 -> <<"R","U","N","N","I","N","G">>
      [] object = 4 -> <<"R","E","M","O","V","I","N","G">>
      [] object = 5 -> <<"P","A","U","S","E","D">>
      [] object = 6 -> <<"E","X","I","T","E","D">>
      [] object = 7 -> <<"D","E","A","D">>
      [] OTHER -> <<"U","N","R","E","C","O","G","N","I","Z","E","D">>

\* the members of common.ContainerState other than UNRECOGNIZED
ValidContainerStates == 0..7

(***************************************************************************)
(* node-mappers.ts                                                         *)
(***************************************************************************)
\* variant: the canonical name is returned as it is
containerStateToDto_NoLowerCase(state) == containerStateToJSON(state)

containerStateToDto(state) == toLowerCase(containerStateToJSON(state))

\* variant: compares against the second entry of the list
nodeTypeUiToGrpc_SecondEntry(type) == IF type = NODE_TYPE_VALUES[2] THEN DOCKER ELSE K8S

nodeTypeUiToGrpc(type) == IF type = NODE_TYPE_VALUES[1] THEN DOCKER ELSE K8S

\* variant: K8S is the sentinel, everything else is the first entry
nodeTypeGrpcToUi_K8sSentinel(type) == IF type = K8S THEN NODE_TYPE_VALUES[2] ELSE NODE_TYPE_VALUES[1]

\* variant: the two entries of the list are swapped
nodeTypeGrpcToUi_Swapped(type) == IF type = DOCKER THEN NODE_TYPE_VALUES[2] ELSE NODE_TYPE_VALUES[1]

nodeTypeGrpcToUi(type) == IF type = DOCKER THEN NODE_TYPE_VALUES[1] ELSE NODE_TYPE_VALUES[2]

\* variant: the default case returns 'running'
nodeStatusToDto_DefaultRunning(status) ==
    CASE status = CONNECTED -> "running"
      [] status = UNREACHABLE -> "unreachable"
      [] OTHER -> "running"

\* variant: no default case, the switch falls through to undefined
nodeStatusToDto_NoDefault(status) ==
    CASE status = CONNECTED -> "running"
      [] status = UNREACHABLE -> "unreachable"
      [] OTHER -> "undefined"

nodeStatusToDto(status) ==
    CASE status = CONNECTED -> "running"
      [] status = UNREACHABLE -> "unreachable"
      [] OTHER -> "unreachable"

\* variant: the default case returns the unspecified member
containerOperationToProto_DefaultUnspecified(it) ==
    CASE it = "start" -> START_CONTAINER
      [] it = "stop" -> STOP_CONTAINER
      [] it = "restart" -> RESTART_CONTAINER
      [] OTHER -> CONTAINER_OPERATION_UNSPECIFIED

containerOperationToProto(it) ==
    CASE it = "start" -> START_CONTAINER
      [] it = "stop" -> STOP_CONTAINER
      [] it = "restart" -> RESTART_CONTAINER
      [] OTHER -> UNRECOGNIZED

(***************************************************************************)
(* Inputs of the mappers                                                   *)
(***************************************************************************)
\* the ContainerOperation strings and strings outside the type
OperationInputs == {"start", "stop", "restart", "pause", "kill", ""}

\* the NodeType strings and strings outside the type
NodeTypeInputs == {"docker", "k8s", "swarm", ""}

NoIntCall == [called |-> FALSE, arg |-> 0, ret |-> ""]
NoStrCall == [called |-> FALSE, arg |-> "", ret |-> 0]
NoStateCall == [called |-> FALSE, arg |-> 0, ret |-> <<>>]

InitMapper ==
    /\ stateCall = NoStateCall
    /\ uiToGrpcCall = NoStrCall
    /\ grpcToUiCall = NoIntCall
    /\ statusCall = NoIntCall
    /\ operationCall = NoStrCall

CallContainerStateToDto ==
    \E state \in WireValues :
        /\ stateCall' = [called |-> TRUE, arg |-> state, ret |-> containerStateToDto(state)]
        /\ UNCHANGED <<uiToGrpcCall, grpcToUiCall, statusCall, operationCall, checkboxVars, controllerVars>>

CallNodeTypeUiToGrpc ==
    \E type \in NodeTypeInputs :
        /\ uiToGrpcCall' = [called |-> TRUE, arg |-> type, ret |-> nodeTypeUiToGrpc(type)]
        /\ UNCHANGED <<stateCall, grpcToUiCall, statusCall, operationCall, checkboxVars, controllerVars>>

CallNodeTypeGrpcToUi ==
    \E type \in WireValues :
        /\ grpcToUiCall' = [called |-> TRUE, arg |-> type, ret |-> nodeTypeGrpcToUi(type)]
        /\ UNCHANGED <<stateCall, uiToGrpcCall, statusCall, operationCall, checkboxVars, controllerVars>>

CallNodeStatusToDto ==
    \E status \in WireValues :
        /\ statusCall' = [called |-> TRUE, arg |-> status, ret |-> nodeStatusToDto(status)]
        /\ UNCHANGED <<stateCall, uiToGrpcCall, grpcToUiCall, operationCall, checkboxVars, controllerVars>>

CallContainerOperationToProto ==
    \E it \in OperationInputs :
        /\ operationCall' = [called |-> TRUE, arg |-> it, ret |-> containerOperationToProto(it)]
        /\ UNCHANGED <<stateCall, uiToGrpcCall, grpcToUiCall, statusCall, checkboxVars, controllerVars>>

NextMapper ==
    \/ CallContainerStateToDto
    \/ CallNodeTypeUiToGrpc
    \/ CallNodeTypeGrpcToUi
    \/ CallNodeStatusToDto
    \/ CallContainerOperationToProto

(***************************************************************************)
(* dyo-checkbox.tsx                                                        *)
(***************************************************************************)
\* the values of the optional boolean prop 'checked'
CheckedValues == {"true", "false", "undefined"}

\* the values of the optional prop 'name'
NameValues == {"agree", "undefined"}

\* JavaScript truthiness of the prop 'checked'
Truthy(c) == c = "true"

\* variant: onCheckedChange is called before setFieldValue
handleCheckedChange_Reversed(isChecked, event) ==
    (IF props.onCheckedChange
     THEN <<[fn |-> "onCheckedChange", args |-> <<isChecked, event>>]>>
     ELSE <<>>)
    \o
    (IF props.setFieldValue
     THEN <<[fn |-> "setFieldValue", args |-> <<props.name, isChecked, FALSE>>]>>
     ELSE <<>>)

\* the callbacks handleCheckedChange calls, in the order of the calls
handleCheckedChange(isChecked, event) ==
    (IF props.setFieldValue
     THEN <<[fn |-> "setFieldValue", args |-> <<props.name, isChecked, FALSE>>]>>
     ELSE <<>>)
    \o
    (IF props.onCheckedChange
     THEN <<[fn |-> "onCheckedChange", args |-> <<isChecked, event>>]>>
     ELSE <<>>)

\* what DyoCheckbox renders: the class of the box, whether the check mark is
\* drawn, and the checked attribute of the hidden input
render ==
    [boxClass |-> IF Truthy(props.checked) THEN "bg-dyo-turquoise" ELSE "border-2 border-light-grey",
     image |-> Truthy(props.checked),
     inputChecked |-> props.checked]

InitCheckbox ==
    /\ props = [checked |-> "undefined", name |-> "undefined",
                setFieldValue |-> FALSE, onCheckedChange |-> FALSE]
    /\ callLog = <<>>

\* onClick of the box
OnClick ==
    /\ Len(callLog) < MaxEvents
    /\ callLog' = Append(callLog, handleCheckedChange(~Truthy(props.checked), "click"))
    /\ UNCHANGED <<props, mapperVars, controllerVars>>

\* onChange of the hidden input
OnChange ==
    /\ Len(callLog) < MaxEvents
    /\ callLog' = Append(callLog, handleCheckedChange(~Truthy(props.checked), "change"))
    /\ UNCHANGED <<props, mapperVars, controllerVars>>

\* the parent renders DyoCheckbox with new props
Render ==
    \E c \in CheckedValues, n \in NameValues, sfv \in BOOLEAN, occ \in BOOLEAN :
        /\ props' = [checked |-> c, name |-> n, setFieldValue |-> sfv, onCheckedChange |-> occ]
        /\ callLog' = <<>>
        /\ UNCHANGED <<mapperVars, controllerVars>>

NextCheckbox ==
    \/ OnClick
    \/ OnChange
    \/ Render

(***************************************************************************)
(* DeployService, as far as the controller depends on it                   *)
(***************************************************************************)
DeploymentIds == {"d" \o ToString(i) : i \in 1..MaxDeployments}

InstanceIds == {"i1", "i2"}

Identities == {"alice"}

Prefixes == {"dev", "prod"}

Thrown == [threw |-> TRUE]

Returned(value) == [threw |-> FALSE, value |-> value]

\* DeployService.getInstance: found by the instance id alone
svcGetInstance(instanceId) ==
    IF instanceId \in InstanceIds /\ instances[instanceId] # ""
    THEN Returned([id |-> instanceId, deploymentId |-> instances[instanceId]])
    ELSE Thrown

\* DeployService.getInstanceSecrets: found by the instance id alone
svcGetInstanceSecrets(instanceId) ==
    IF instanceId \in InstanceIds /\ instances[instanceId] # ""
    THEN Returned([container |-> instanceId, keys |-> <<"SECRET">>])
    ELSE Thrown

\* DeployService.createDeployment: a new deployment with a fresh id, or a failure
svcCreateDeployment(request, identity) ==
    {Thrown} \cup
    {Returned([id |-> n, prefix |-> request.prefix, createdBy |-> identity]) :
        n \in DeploymentIds \ deployments}

\* DeployService.copyDeployment: a new deployment with a fresh id, or a failure
svcCopyDeployment(deploymentId, identity) ==
    {Thrown} \cup
    IF deploymentId \in deployments
    THEN {Returned([id |-> n, prefix |-> "copy", createdBy |-> identity]) :
             n \in DeploymentIds \ deployments}
    ELSE {}

\* DeployService.deleteDeployment
svcDeleteDeployment(deploymentId) ==
    IF deploymentId \in deployments THEN Returned("void") ELSE Thrown

(***************************************************************************)
(* deploy.http.controller.ts                                               *)
(***************************************************************************)
ROUTE_DEPLOYMENTS == "deployments"

\* variant: the leading slash is missing
locationOf_NoLeadingSlash(deploymentId) == ROUTE_DEPLOYMENTS \o "/" \o deploymentId

locationOf(deploymentId) == "/" \o ROUTE_DEPLOYMENTS \o "/" \o deploymentId

\* a handler whose service call threw returns nothing: the error propagates
Rejected == [status |-> "error"]

\* the handler made one service call and returned (or threw)
Handled(request, call, response) ==
    /\ prevReq' = req
    /\ prevCalls' = svcCalls
    /\ prevRes' = res
    /\ req' = request
    /\ svcCalls' = <<call>>
    /\ res' = response

\* variant: the deployment id is what is passed to the service
getInstanceCall_DeploymentId(deploymentId, instanceId) ==
    [method |-> "getInstance", args |-> <<deploymentId>>, result |-> svcGetInstance(deploymentId)]

\* the service call of getInstance
getInstanceCall(deploymentId, instanceId) ==
    [method |-> "getInstance", args |-> <<instanceId>>, result |-> svcGetInstance(instanceId)]

getInstance(deploymentId, instanceId) ==
    LET call == getInstanceCall(deploymentId, instanceId) IN
    /\ Handled([route |-> "getInstance", deploymentId |-> deploymentId, instanceId |-> instanceId],
               call,
               IF call.result.threw THEN Rejected ELSE [status |-> "ok", body |-> call.result.value])
    /\ UNCHANGED <<deployments, instances, mapperVars, checkboxVars>>

getDeploymentSecrets(deploymentId, instanceId) ==
    LET call == [method |-> "getInstanceSecrets", args |-> <<instanceId>>,
                 result |-> svcGetInstanceSecrets(instanceId)] IN
    /\ Handled([route |-> "getDeploymentSecrets", deploymentId |-> deploymentId, instanceId |-> instanceId],
               call,
               IF call.result.threw THEN Rejected ELSE [status |-> "ok", body |-> call.result.value])
    /\ UNCHANGED <<deployments, instances, mapperVars, checkboxVars>>

createDeployment(request, identity) ==
    \E result \in svcCreateDeployment(request, identity) :
        /\ Handled([route |-> "createDeployment", body |-> request, identity |-> identity],
                   [method |-> "createDeployment", args |-> <<request, identity>>, result |-> result],
                   IF result.threw
                   THEN Rejected
                   ELSE [status |-> "created", url |-> locationOf(result.value.id), body |-> result.value])
        /\ deployments' = IF result.threw THEN deployments ELSE deployments \cup {result.value.id}
        /\ UNCHANGED <<instances, mapperVars, checkboxVars>>

copyDeployment(force, deploymentId, identity) ==
    \E result \in svcCopyDeployment(deploymentId, identity) :
        /\ Handled([route |-> "copyDeployment", force |-> force, deploymentId |-> deploymentId,
                    identity |-> identity],
                   [method |-> "copyDeployment", args |-> <<deploymentId, identity>>, result |-> result],
                   IF result.threw
                   THEN Rejected
                   ELSE [status |-> "created", url |-> locationOf(result.value.id), body |-> result.value])
        /\ deployments' = IF result.threw THEN deployments ELSE deployments \cup {result.value.id}
        /\ UNCHANGED <<instances, mapperVars, checkboxVars>>

deleteDeployment(deploymentId) ==
    LET result == svcDeleteDeployment(deploymentId) IN
    /\ Handled([route |-> "deleteDeployment", deploymentId |-> deploymentId],
               [method |-> "deleteDeployment", args |-> <<deploymentId>>, result |-> result],
               IF result.threw THEN Rejected ELSE [status |-> "ok"])
    /\ deployments' = deployments \ {deploymentId}
    /\ instances' = [i \in InstanceIds |-> IF instances[i] = deploymentId THEN "" ELSE instances[i]]
    /\ UNCHANGED <<mapperVars, checkboxVars>>

NoRequest == [route |-> "none"]

InitController ==
    /\ deployments = {"d1"}
    /\ instances = [i \in InstanceIds |-> "d1"]
    /\ req = NoRequest
    /\ svcCalls = <<>>
    /\ res = [status |-> "none"]
    /\ prevReq = NoRequest
    /\ prevCalls = <<>>
    /\ prevRes = [status |-> "none"]

NextController ==
    \/ \E d \in DeploymentIds, i \in InstanceIds : getInstance(d, i)
    \/ \E d \in DeploymentIds, i \in InstanceIds : getDeploymentSecrets(d, i)
    \/ \E prefix \in Prefixes, identity \in Identities :
           createDeployment([prefix |-> prefix], identity)
    \/ \E force \in BOOLEAN, d \in DeploymentIds, identity \in Identities :
           copyDeployment(force, d, identity)
    \/ \E d \in DeploymentIds : deleteDeployment(d)

(***************************************************************************)
(* Specifications                                                          *)
(***************************************************************************)
Init == InitMapper /\ InitCheckbox /\ InitController

SpecMapper == Init /\ [][NextMapper]_vars

SpecCheckbox == Init /\ [][NextCheckbox]_vars

SpecController == Init /\ [][NextController]_vars

(***************************************************************************)
(* Properties of the mappers                                               *)
(***************************************************************************)
KnownOperations == {"start", "stop", "restart"}

\* C1: containerOperationToProto maps 'start', 'stop' and 'restart' to
\* START_CONTAINER, STOP_CONTAINER and RESTART_CONTAINER, every other string
\* to UNRECOGNIZED; the three values are pairwise distinct and none of them
\* is UNRECOGNIZED.
C1_OperationMapping ==
    operationCall.called =>
        /\ operationCall.arg = "start" => operationCall.ret = START_CONTAINER
        /\ operationCall.arg = "stop" => operationCall.ret = STOP_CONTAINER
        /\ operationCall.arg = "restart" => operationCall.ret = RESTART_CONTAINER
        /\ operationCall.arg \notin KnownOperations => operationCall.ret = UNRECOGNIZED
        /\ operationCall.arg \in KnownOperations => operationCall.ret # UNRECOGNIZED
        /\ Cardinality({START_CONTAINER, STOP_CONTAINER, RESTART_CONTAINER, UNRECOGNIZED}) = 4

C1_Witness ==
    /\ operationCall.called
    /\ operationCall.arg = "pause"
    /\ operationCall.ret = UNRECOGNIZED

\* C2: nodeStatusToDto returns 'running' exactly when its input is CONNECTED
\* and 'unreachable' for every other value.
C2_StatusMapping ==
    statusCall.called =>
        /\ (statusCall.ret = "running") <=> (statusCall.arg = CONNECTED)
        /\ statusCall.arg # CONNECTED => statusCall.ret = "unreachable"
        /\ statusCall.ret \in {"running", "unreachable"}

C2_Witness ==
    /\ statusCall.called
    /\ statusCall.arg \notin {UNRECOGNIZED, CONNECTION_STATUS_UNSPECIFIED, UNREACHABLE, CONNECTED}
    /\ statusCall.ret = "unreachable"

\* C3: nodeTypeGrpcToUi returns the first entry of NODE_TYPE_VALUES for DOCKER
\* and the second entry for every other value.
C3_TypeToUi ==
    grpcToUiCall.called =>
        /\ grpcToUiCall.arg = DOCKER => grpcToUiCall.ret = NODE_TYPE_VALUES[1]
        /\ grpcToUiCall.arg # DOCKER => grpcToUiCall.ret = NODE_TYPE_VALUES[2]
        /\ grpcToUiCall.ret \in {NODE_TYPE_VALUES[1], NODE_TYPE_VALUES[2]}

C3_Witness ==
    /\ grpcToUiCall.called
    /\ grpcToUiCall.arg \notin GrpcNodeTypeValues
    /\ grpcToUiCall.ret = NODE_TYPE_VALUES[2]

\* nodeTypeGrpcToUi was applied to the result of nodeTypeUiToGrpc
UiGrpcUiChain ==
    /\ uiToGrpcCall.called
    /\ grpcToUiCall.called
    /\ grpcToUiCall.arg = uiToGrpcCall.ret

\* nodeTypeUiToGrpc was applied to the result of nodeTypeGrpcToUi
GrpcUiGrpcChain ==
    /\ grpcToUiCall.called
    /\ uiToGrpcCall.called
    /\ uiToGrpcCall.arg = grpcToUiCall.ret

\* C4: display -> protocol -> display gives the original entry back, for each
\* of the two entries of NODE_TYPE_VALUES, provided the entries are distinct.
C4_RoundTripFromUi ==
    ( /\ UiGrpcUiChain
      /\ uiToGrpcCall.arg \in {NODE_TYPE_VALUES[1], NODE_TYPE_VALUES[2]}
      /\ NODE_TYPE_VALUES[1] # NODE_TYPE_VALUES[2] )
    => grpcToUiCall.ret = uiToGrpcCall.arg

C4_Witness ==
    /\ UiGrpcUiChain
    /\ uiToGrpcCall.arg = NODE_TYPE_VALUES[2]
    /\ uiToGrpcCall.ret = K8S
    /\ grpcToUiCall.ret = NODE_TYPE_VALUES[2]

\* C5 as stated: protocol -> display -> protocol gives the original value
\* back for every protocol value, the unspecified and UNRECOGNIZED ones
\* included.
C5_RoundTripFromGrpc_AsStated ==
    (GrpcUiGrpcChain /\ grpcToUiCall.arg \in GrpcNodeTypeValues)
    => uiToGrpcCall.ret = grpcToUiCall.arg

\* C5 (amended): protocol -> display -> protocol gives the original value
\* back for DOCKER and K8S; for every other protocol value it gives K8S.
C5_RoundTripFromGrpc ==
    GrpcUiGrpcChain =>
        /\ grpcToUiCall.arg \in {DOCKER, K8S} => uiToGrpcCall.ret = grpcToUiCall.arg
        /\ grpcToUiCall.arg \notin {DOCKER, K8S} => uiToGrpcCall.ret = K8S

C5_Witness ==
    /\ GrpcUiGrpcChain
    /\ grpcToUiCall.arg = NODE_TYPE_UNSPECIFIED
    /\ uiToGrpcCall.ret = K8S

\* r is s with every uppercase letter replaced by its lowercase letter
IsLowerCaseFormOf(r, s) ==
    /\ Len(r) = Len(s)
    /\ \A i \in 1..Len(s) :
        \/ \E k \in 1..Len(UpperLetters) : s[i] = UpperLetters[k] /\ r[i] = LowerLetters[k]
        \/ ~IsUpper(s[i]) /\ r[i] = s[i]

HasNoUpper(s) == \A i \in 1..Len(s) : ~IsUpper(s[i])

\* C6: for every valid container state, containerStateToDto is the lowercase
\* form of the canonical name; it has no uppercase letter and lowercasing it
\* again leaves it unchanged.
C6_StateLowerCase ==
    (stateCall.called /\ stateCall.arg \in ValidContainerStates) =>
        /\ IsLowerCaseFormOf(stateCall.ret, containerStateToJSON(stateCall.arg))
        /\ HasNoUpper(stateCall.ret)
        /\ toLowerCase(stateCall.ret) = stateCall.ret

C6_Witness ==
    /\ stateCall.called
    /\ stateCall.arg = 3
    /\ stateCall.ret = <<"r","u","n","n","i","n","g">>

CallsOf(calls, fn) == {k \in 1..Len(calls) : calls[k].fn = fn}

\* the calls of one event are those of a toggle of the prop 'checked'
ToggleCalls(calls) ==
    /\ Cardinality(CallsOf(calls, "setFieldValue")) = IF props.setFieldValue THEN 1 ELSE 0
    /\ Cardinality(CallsOf(calls, "onCheckedChange")) = IF props.onCheckedChange THEN 1 ELSE 0
    /\ Len(calls) = Cardinality(CallsOf(calls, "setFieldValue"))
                    + Cardinality(CallsOf(calls, "onCheckedChange"))
    /\ \A k \in CallsOf(calls, "setFieldValue") :
           /\ calls[k].args = <<props.name, ~Truthy(props.checked), FALSE>>
           /\ \A m \in CallsOf(calls, "onCheckedChange") : k < m
    /\ \A m \in CallsOf(calls, "onCheckedChange") :
           /\ Len(calls[m].args) = 2
           /\ calls[m].args[1] = ~Truthy(props.checked)
           /\ calls[m].args[2] \in {"click", "change"}

\* C8: on every click or change DyoCheckbox calls setFieldValue(name, not
\* checked, false) if it is given and then onCheckedChange(not checked, event)
\* if it is given, each at most once and in that order; every event since the
\* last render reports the same value; handling an event changes neither the
\* props nor what is rendered.
C8_StatelessToggle ==
    /\ [](\A e \in 1..Len(callLog) : ToggleCalls(callLog[e]))
    /\ [][Len(callLog') > Len(callLog) => (props' = props /\ render' = render)]_vars

C8_Witness ==
    /\ Len(callLog) = 2
    /\ props.checked = "undefined"
    /\ props.setFieldValue
    /\ props.onCheckedChange
    /\ callLog[1] = <<[fn |-> "setFieldValue", args |-> <<props.name, TRUE, FALSE>>],
                      [fn |-> "onCheckedChange", args |-> <<TRUE, "click">>]>>
    /\ callLog[2] = <<[fn |-> "setFieldValue", args |-> <<props.name, TRUE, FALSE>>],
                      [fn |-> "onCheckedChange", args |-> <<TRUE, "change">>]>>

(***************************************************************************)
(* Properties of the controller                                            *)
(***************************************************************************)
\* C9: createDeployment and copyDeployment call the service exactly once; if
\* it returns deployment d, the response has body d and url '/deployments/'
\* followed by d.id, which is not the id of the copy source; if it fails, the
\* response has no url.
C9_CreatedLocation ==
    req.route \in {"createDeployment", "copyDeployment"} =>
        /\ Len(svcCalls) = 1
        /\ svcCalls[1].method = req.route
        /\ ~svcCalls[1].result.threw =>
              /\ res.status = "created"
              /\ res.body = svcCalls[1].result.value
              /\ res.url = "/deployments/" \o svcCalls[1].result.value.id
              /\ req.route = "copyDeployment" => res.url # "/deployments/" \o req.deploymentId
        /\ svcCalls[1].result.threw => "url" \notin DOMAIN res

C9_Witness ==
    /\ req.route = "copyDeployment"
    /\ req.deploymentId = "d1"
    /\ res.status = "created"
    /\ res.url = "/deployments/d2"
    /\ prevReq.route = "createDeployment"
    /\ prevRes.status = "error"

\* the method and the arguments of the service calls
Sent(calls) == [k \in 1..Len(calls) |-> [method |-> calls[k].method, args |-> calls[k].args]]

====
